---- MODULE Spec2Model ----
(***************************************************************************)
(* Model of find_alpha.py: the sequential alpha submission pipeline.       *)
(* main() signs in, fetches the fundamental6 data fields, generates the    *)
(* alpha expressions, loads the checkpoint and submits the expressions one *)
(* by one, retrying a rejected submit, re-signing in once the failure      *)
(* count exceeds the tolerance, and saving the checkpoint after each item. *)
(* The process may be killed between any two steps and started again.      *)
(***************************************************************************)
EXTENDS Integers, Sequences, FiniteSets, TLC

(***************************************************************************)
(* Bounds of the model.                                                    *)
(***************************************************************************)
\* largest number of rows the data-fields service returns
MaxFields == 1
\* largest number of times main() is started
MaxRuns == 2

(***************************************************************************)
(* Program constants.                                                      *)
(***************************************************************************)
ALPHA_FAIL_ATTEMPT_TOLERANCE == 15

\* the group list of generate_alpha_expressions_2
group == <<"market", "industry", "subindustry", "sector">>

(***************************************************************************)
(* Text of the checkpoint file: a sequence of characters.                  *)
(***************************************************************************)
Digits == <<"0", "1", "2", "3", "4", "5", "6", "7", "8", "9">>

DigitSet == {Digits[k] : k \in 1..10}

Whitespace == {" ", "\n"}

DigitVal(c) == (CHOOSE k \in 1..10 : Digits[k] = c) - 1

RECURSIVE StrNat(_)
StrNat(n) ==
  IF n < 10 THEN <<Digits[n + 1]>>
  ELSE StrNat(n \div 10) \o <<Digits[(n % 10) + 1]>>

\* str(index), as save_checkpoint writes it
Str(n) == IF n < 0 THEN <<"-">> \o StrNat(0 - n) ELSE StrNat(n)

RECURSIVE LStrip(_)
LStrip(s) ==
  IF s # <<>> /\ Head(s) \in Whitespace THEN LStrip(Tail(s)) ELSE s

RECURSIVE RStrip(_)
RStrip(s) ==
  IF s # <<>> /\ s[Len(s)] \in Whitespace
  THEN RStrip(SubSeq(s, 1, Len(s) - 1)) ELSE s

\* f.read().strip()
Strip(s) == RStrip(LStrip(s))

HasSign(s) == s # <<>> /\ Head(s) \in {"-", "+"}

Unsigned(s) == IF HasSign(s) THEN Tail(s) ELSE s

\* the texts int() accepts: optional surrounding whitespace, an optional
\* sign, one or more decimal digits; every other text raises ValueError
IsIntLiteral(s) ==
  LET b == Unsigned(Strip(s))
  IN  b # <<>> /\ \A k \in 1..Len(b) : b[k] \in DigitSet

RECURSIVE NatVal(_)
NatVal(b) ==
  IF b = <<>> THEN 0
  ELSE 10 * NatVal(SubSeq(b, 1, Len(b) - 1)) + DigitVal(b[Len(b)])

\* int(text) for a text int() accepts
IntVal(s) ==
  LET t == Strip(s)
  IN  IF t # <<>> /\ Head(t) = "-" THEN 0 - NatVal(Tail(t))
      ELSE NatVal(Unsigned(t))

(***************************************************************************)
(* The expression generator.                                               *)
(***************************************************************************)
AlphaExpression(datafield, g) ==
  "group_rank(" \o datafield \o "/cap, " \o g \o ")"

\* a generator with the loops swapped: groups outside, data fields inside
GroupsOutside(datafields) ==
  [n \in 1..(Len(group) * Len(datafields)) |->
     AlphaExpression(datafields[((n - 1) % Len(datafields)) + 1],
                     group[((n - 1) \div Len(datafields)) + 1])]

RECURSIVE generate_alpha_expressions_2(_)
generate_alpha_expressions_2(datafields) ==
  IF datafields = <<>> THEN <<>>
  ELSE [k \in 1..Len(group) |-> AlphaExpression(Head(datafields), group[k])]
       \o generate_alpha_expressions_2(Tail(datafields))

\* rows of the data-fields table: id and type
Rows == {[id |-> "a", type |-> "MATRIX"],
         [id |-> "b", type |-> "MATRIX"],
         [id |-> "v", type |-> "VECTOR"]}

\* the tables of at most n rows: ids are unique within a table
TablesUpTo(n) ==
  {t \in UNION {[1..m -> Rows] : m \in 0..n} :
     \A j, k \in 1..Len(t) : j # k => t[j].id # t[k].id}

\* the tables the service may hold
Tables == TablesUpTo(MaxFields)

\* fundamental6_df[fundamental6_df['type'] == "MATRIX"]['id'].tolist()
RECURSIVE MatrixIds(_)
MatrixIds(t) ==
  IF t = <<>> THEN <<>>
  ELSE (IF Head(t).type = "MATRIX" THEN <<Head(t).id>> ELSE <<>>)
       \o MatrixIds(Tail(t))

Min(a, b) == IF a < b THEN a ELSE b

Max(a, b) == IF a > b THEN a ELSE b

\* seq[start:], with Python's reading of a negative or too large start
SliceFrom(s, start) ==
  LET n  == Len(s)
      lo == IF start < 0 THEN Max(n + start, 0) ELSE Min(start, n)
  IN  SubSeq(s, lo + 1, n)

(***************************************************************************)
(* State.                                                                  *)
(***************************************************************************)
VARIABLES
  pc,                \* where main() stands; an ended run keeps its ending
  runs,              \* how many times main() has been started
  fileExists,        \* os.path.isfile(CHECKPOINT_FILE)
  fileContent,       \* the text of CHECKPOINT_FILE
  table,             \* the rows the data-fields service holds
  sess,              \* the session in use: 0 for none, else the n-th sign-in
  authCount,         \* successful sign-ins of this run
  alpha_expressions, \* the generated list
  start_index,       \* what load_checkpoint returned
  pos,               \* items of alpha_expressions[start_index:] completed
  failure_count,     \* failures of the current item
  lastEvent,         \* the last thing that happened to the current item
  attempts,          \* submits of the current item
  authCalls,         \* sign_in calls made for the current item
  lastResp,          \* what the service answered to the last submit
  posts,             \* POST requests sent for the current item
  sleeps,            \* sleep(15) calls made for the current item
  usedSess,          \* the session the last submit was sent with
  lastOutcome,       \* how the previous item of this run ended
  written,           \* the values this run passed to save_checkpoint
  loaded,            \* what load_checkpoint found in this run
  watch,             \* one index, any, whose accepted submits are counted
  watchAccepts,      \* accepted submits of index watch over all runs
  observed           \* the largest value the store held before now

vars == <<pc, runs, fileExists, fileContent, table, sess, authCount,
          alpha_expressions, start_index, pos, failure_count, lastEvent,
          attempts, authCalls, lastResp, posts, sleeps, usedSess,
          lastOutcome, written, loaded, watch, watchAccepts, observed>>

Running == {"signin", "fetch", "load", "submit", "sleep", "resign", "save",
            "write"}

Ended == {"done", "returned", "raised"}

\* the items the for loop walks: alpha_expressions[start_index:]
todo == SliceFrom(alpha_expressions, start_index)

\* the loop variables of enumerate(..., start=start_index)
i == start_index + pos

alpha == todo[pos + 1]

\* the process exit status: an uncaught exception ends it with 1
ExitCode == IF pc = "raised" THEN 1 ELSE 0

NotLoaded == [state |-> "none", text |-> <<>>]

\* no submit answered yet, or the answer has been dealt with
NoResponse == [error |-> "unsent", status |-> 0, location |-> ""]

(***************************************************************************)
(* Checkpoint files a run may find.                                        *)
(***************************************************************************)
Absent == [exists |-> FALSE, text |-> <<>>]

Present(t) == [exists |-> TRUE, text |-> t]

\* the largest index the model stores: one past the longest list
MaxStored == Len(group) * MaxFields + 1

\* what earlier runs of the program leave behind
WrittenFiles == {Absent} \cup {Present(Str(k)) : k \in 0..MaxStored}

\* texts no run writes: edited by hand, or damaged
OtherFiles ==
  {Present(<<>>), Present(<<"x">>), Present(<<"1", "x">>), Present(<<"-">>),
   Present(<<"-", "1">>), Present(<<"-", "6">>), Present(<<"+", "2">>),
   Present(<<" ", "3", "\n">>), Present(<<"1", "2">>)}

(***************************************************************************)
(* Initial state: main() is about to sign in for the first time.           *)
(***************************************************************************)
InitRun ==
  /\ pc = "signin"
  /\ sess = 0
  /\ authCount = 0
  /\ alpha_expressions = <<>>
  /\ start_index = 0
  /\ pos = 0
  /\ failure_count = 0
  /\ lastEvent = "none"
  /\ attempts = 0
  /\ authCalls = 0
  /\ lastResp = NoResponse
  /\ posts = 0
  /\ sleeps = 0
  /\ usedSess = 0
  /\ lastOutcome = "none"
  /\ written = <<>>
  /\ loaded = NotLoaded

InitWith(files) ==
  /\ InitRun
  /\ runs = 1
  /\ \E f \in files : fileExists = f.exists /\ fileContent = f.text
  /\ table \in Tables
  /\ watch \in 0..(Len(group) * MaxFields - 1)
  /\ watchAccepts = 0
  /\ observed = <<>>

Init == InitWith(WrittenFiles)

InitAnyFile == InitWith(WrittenFiles \cup OtherFiles)

\* a first start without checkpoint file, over tables one row longer
InitLongList ==
  /\ InitRun
  /\ runs = 1
  /\ fileExists = FALSE
  /\ fileContent = <<>>
  /\ table \in TablesUpTo(MaxFields + 1)
  /\ watch = 0
  /\ watchAccepts = 0
  /\ observed = <<>>

fileVars == <<fileExists, fileContent, observed>>

itemVars == <<lastEvent, attempts, authCalls>>

callVars == <<lastResp, posts, sleeps, usedSess>>

everVars == <<watch, watchAccepts>>

(***************************************************************************)
(* Start of main(): sign in, fetch the data fields, generate.              *)
(***************************************************************************)
\* sign_in returns a new session
SignInOk ==
  /\ pc = "signin"
  /\ authCount' = authCount + 1
  /\ sess' = authCount + 1
  /\ pc' = "fetch"
  /\ UNCHANGED <<runs, table, alpha_expressions, start_index, pos,
                 failure_count, lastOutcome, written, loaded>>
  /\ UNCHANGED <<fileVars, itemVars, callVars, everVars>>

\* a failed first sign_in that main() swallows and goes on without session
SignInFailGoesOn ==
  /\ pc = "signin"
  /\ pc' = "fetch"
  /\ UNCHANGED <<runs, table, sess, authCount, alpha_expressions, start_index,
                 pos, failure_count, lastOutcome, written, loaded>>
  /\ UNCHANGED <<fileVars, itemVars, callVars, everVars>>

\* sign_in raises RequestException: main logs and returns
SignInFail ==
  /\ pc = "signin"
  /\ pc' = "returned"
  /\ UNCHANGED <<runs, table, sess, authCount, alpha_expressions, start_index,
                 pos, failure_count, lastOutcome, written, loaded>>
  /\ UNCHANGED <<fileVars, itemVars, callVars, everVars>>

\* get_datafields returns the table; an empty DataFrame has no 'type'
\* column, so the filter raises KeyError; else the list is generated
FetchOk ==
  /\ pc = "fetch"
  /\ IF table = <<>>
     THEN pc' = "raised" /\ UNCHANGED alpha_expressions
     ELSE /\ alpha_expressions' = generate_alpha_expressions_2(MatrixIds(table))
          /\ pc' = "load"
  /\ UNCHANGED <<runs, table, sess, authCount, start_index, pos,
                 failure_count, lastOutcome, written, loaded>>
  /\ UNCHANGED <<fileVars, itemVars, callVars, everVars>>

\* get_datafields raises RequestException: main logs and returns
FetchFail ==
  /\ pc = "fetch"
  /\ pc' = "returned"
  /\ UNCHANGED <<runs, table, sess, authCount, alpha_expressions, start_index,
                 pos, failure_count, lastOutcome, written, loaded>>
  /\ UNCHANGED <<fileVars, itemVars, callVars, everVars>>

(***************************************************************************)
(* load_checkpoint and the entry of the for loop.                          *)
(***************************************************************************)
\* a loop that stops one item short
LoopEntryStopsEarly(n) == IF n <= 1 THEN "done" ELSE "submit"

\* where main() goes once the loop has n items left to walk
LoopEntry(n) == IF n = 0 THEN "done" ELSE "submit"

\* a load that forgets the file and starts over
LoadedIndexFromZero(exists, text) == 0

\* the index load_checkpoint returns: 0 without a file, else int(text)
LoadedIndex(exists, text) == IF exists THEN IntVal(text) ELSE 0

\* load_checkpoint: 0 without a file, int(text.strip()) with one; a text
\* int() refuses raises ValueError, which main does not catch
LoadCheckpoint ==
  /\ pc = "load"
  /\ loaded' = [state |-> IF fileExists THEN "present" ELSE "absent",
                text  |-> fileContent]
  /\ IF fileExists /\ ~IsIntLiteral(fileContent)
     THEN pc' = "raised" /\ UNCHANGED start_index
     ELSE /\ start_index' = LoadedIndex(fileExists, fileContent)
          /\ pc' = LoopEntry(Len(SliceFrom(alpha_expressions, start_index')))
  /\ UNCHANGED <<runs, table, sess, authCount, alpha_expressions, pos,
                 failure_count, lastOutcome, written>>
  /\ UNCHANGED <<fileVars, itemVars, callVars, everVars>>

(***************************************************************************)
(* The retry loop of one item.                                             *)
(***************************************************************************)
\* what the simulations service may answer to one POST
Responses ==
  {[error |-> e, status |-> 0, location |-> ""] :
     e \in {"ConnectionError", "Timeout"}}
  \cup {[error |-> "none", status |-> st, location |-> loc] :
          st \in {201, 500}, loc \in {"", "url"}}

\* a process_alpha without raise_for_status
ProcessAlphaAnyStatus(resp) == resp.error = "none" /\ resp.location # ""

\* process_alpha: the exception of a failed request and the HTTPError
\* raise_for_status raises for a 4xx or 5xx status are caught and give
\* False; else True exactly when the Location header is not empty
process_alpha(resp) ==
  resp.error = "none" /\ resp.status < 400 /\ resp.location # ""

\* a tolerance test that is off by one
ReachesTolerance(fc) == fc >= ALPHA_FAIL_ATTEMPT_TOLERANCE

\* failure_count > ALPHA_FAIL_ATTEMPT_TOLERANCE
ExceedsTolerance(fc) == fc > ALPHA_FAIL_ATTEMPT_TOLERANCE

\* one process_alpha call of the while loop
Submit ==
  /\ pc = "submit"
  /\ \E resp \in Responses :
       /\ lastResp' = resp
       /\ IF process_alpha(resp)
          THEN /\ lastEvent' = "accepted"
               /\ watchAccepts' = IF i = watch THEN Min(watchAccepts + 1, 2)
                                  ELSE watchAccepts
               /\ UNCHANGED watch
               /\ pc' = "save"
          ELSE /\ lastEvent' = "rejected"
               /\ UNCHANGED everVars
               /\ pc' = "sleep"
  /\ attempts' = attempts + 1
  /\ posts' = posts + 1
  /\ usedSess' = sess
  /\ UNCHANGED <<runs, table, sess, authCount, alpha_expressions, start_index,
                 pos, failure_count, authCalls, sleeps, lastOutcome, written,
                 loaded>>
  /\ UNCHANGED fileVars

\* a loop that gives the item up at the tolerance without signing in
BackoffGivesUp ==
  /\ pc = "sleep"
  /\ failure_count' = failure_count + 1
  /\ pc' = IF ExceedsTolerance(failure_count') THEN "save" ELSE "submit"
  /\ sleeps' = sleeps + 1
  /\ lastResp' = NoResponse
  /\ UNCHANGED <<runs, table, sess, authCount, alpha_expressions, start_index,
                 pos, posts, usedSess, lastOutcome, written, loaded>>
  /\ UNCHANGED <<fileVars, itemVars, everVars>>

\* a loop that tests the tolerance first and signs in without the wait
BackoffSkipsLastWait ==
  /\ pc = "sleep"
  /\ failure_count' = failure_count + 1
  /\ pc' = IF ExceedsTolerance(failure_count') THEN "resign" ELSE "submit"
  /\ sleeps' = IF ExceedsTolerance(failure_count') THEN sleeps ELSE sleeps + 1
  /\ lastResp' = NoResponse
  /\ UNCHANGED <<runs, table, sess, authCount, alpha_expressions, start_index,
                 pos, posts, usedSess, lastOutcome, written, loaded>>
  /\ UNCHANGED <<fileVars, itemVars, everVars>>

\* sleep(15); failure_count += 1; then the tolerance test
Backoff ==
  /\ pc = "sleep"
  /\ failure_count' = failure_count + 1
  /\ pc' = IF ExceedsTolerance(failure_count') THEN "resign" ELSE "submit"
  /\ sleeps' = sleeps + 1
  /\ lastResp' = NoResponse
  /\ UNCHANGED <<runs, table, sess, authCount, alpha_expressions, start_index,
                 pos, posts, usedSess, lastOutcome, written, loaded>>
  /\ UNCHANGED <<fileVars, itemVars, everVars>>

\* a re-sign-in that leaves keep_trying True, so the item is tried again
ReSignInOkRetries ==
  /\ pc = "resign"
  /\ authCount' = authCount + 1
  /\ sess' = authCount + 1
  /\ failure_count' = 0
  /\ lastEvent' = "resign_ok"
  /\ authCalls' = authCalls + 1
  /\ pc' = "submit"
  /\ UNCHANGED <<runs, table, alpha_expressions, start_index, pos, attempts,
                 lastOutcome, written, loaded>>
  /\ UNCHANGED <<fileVars, callVars, everVars>>

\* sign_in succeeds: new session, failure_count = 0, keep_trying = False
ReSignInOk ==
  /\ pc = "resign"
  /\ authCount' = authCount + 1
  /\ sess' = authCount + 1
  /\ failure_count' = 0
  /\ lastEvent' = "resign_ok"
  /\ authCalls' = authCalls + 1
  /\ pc' = "save"
  /\ UNCHANGED <<runs, table, alpha_expressions, start_index, pos, attempts,
                 lastOutcome, written, loaded>>
  /\ UNCHANGED <<fileVars, callVars, everVars>>

\* a re-sign-in whose RequestException is not caught and ends main()
ReSignInFailRaises ==
  /\ pc = "resign"
  /\ lastEvent' = "resign_fail"
  /\ authCalls' = authCalls + 1
  /\ pc' = "raised"
  /\ UNCHANGED <<runs, table, sess, authCount, alpha_expressions, start_index,
                 pos, failure_count, attempts, lastOutcome, written, loaded>>
  /\ UNCHANGED <<fileVars, callVars, everVars>>

\* a failed re-sign-in that leaves main() without session
ReSignInFailDropsSession ==
  /\ pc = "resign"
  /\ sess' = 0
  /\ lastEvent' = "resign_fail"
  /\ authCalls' = authCalls + 1
  /\ pc' = "save"
  /\ UNCHANGED <<runs, table, authCount, alpha_expressions, start_index,
                 pos, failure_count, attempts, lastOutcome, written, loaded>>
  /\ UNCHANGED <<fileVars, callVars, everVars>>

\* sign_in raises RequestException: break out of the while loop
ReSignInFail ==
  /\ pc = "resign"
  /\ lastEvent' = "resign_fail"
  /\ authCalls' = authCalls + 1
  /\ pc' = "save"
  /\ UNCHANGED <<runs, table, sess, authCount, alpha_expressions, start_index,
                 pos, failure_count, attempts, lastOutcome, written, loaded>>
  /\ UNCHANGED <<fileVars, callVars, everVars>>

(***************************************************************************)
(* save_checkpoint(i + 1) and the step to the next item.                   *)
(***************************************************************************)
\* a driver that saves the index of the item instead of the next one
SameCheckpoint(idx) == idx

\* the value main() passes to save_checkpoint for item idx
NextCheckpoint(idx) == idx + 1

\* how an item ended, from the last thing that happened to it
OutcomeOf(ev) ==
  CASE ev = "accepted"    -> "accepted"
    [] ev = "resign_fail" -> "abandoned"
    [] ev = "resign_ok"   -> "skipped"
    [] OTHER              -> "none"

\* open(checkpoint_file, "w") creates or truncates the file
SaveOpen ==
  /\ pc = "save"
  /\ observed' = IF fileExists /\ IsIntLiteral(fileContent)
                 THEN (IF observed = <<>> THEN <<IntVal(fileContent)>>
                       ELSE <<Max(observed[1], IntVal(fileContent))>>)
                 ELSE observed
  /\ fileExists' = TRUE
  /\ fileContent' = <<>>
  /\ pc' = "write"
  /\ UNCHANGED <<runs, table, sess, authCount, alpha_expressions, start_index,
                 pos, failure_count, lastOutcome, written, loaded>>
  /\ UNCHANGED <<itemVars, callVars, everVars>>

\* a loop that carries the count of one item over to the next
CarriedFailureCount(fc) == fc

\* failure_count = 0 at the top of a round of the for loop
FreshFailureCount(fc) == 0

\* f.write(str(index)) and the close that flushes it; then the for loop
\* takes the next item with keep_trying = True and failure_count = 0
SaveWrite ==
  /\ pc = "write"
  /\ fileContent' = Str(NextCheckpoint(i))
  /\ written' = Append(written, NextCheckpoint(i))
  /\ lastOutcome' = OutcomeOf(lastEvent)
  /\ pos' = pos + 1
  /\ failure_count' = IF pos + 1 < Len(todo)
                      THEN FreshFailureCount(failure_count)
                      ELSE failure_count
  /\ lastEvent' = "none"
  /\ attempts' = 0
  /\ authCalls' = 0
  /\ lastResp' = NoResponse
  /\ posts' = 0
  /\ sleeps' = 0
  /\ usedSess' = 0
  /\ pc' = LoopEntry(Len(todo) - (pos + 1))
  /\ UNCHANGED <<runs, table, sess, authCount, alpha_expressions, start_index,
                 loaded, fileExists, observed>>
  /\ UNCHANGED everVars

(***************************************************************************)
(* The process is killed, or has ended, and main() is started again.       *)
(***************************************************************************)
StartAgain ==
  /\ runs < MaxRuns
  /\ runs' = runs + 1
  /\ pc' = "signin"
  /\ sess' = 0
  /\ authCount' = 0
  /\ alpha_expressions' = <<>>
  /\ start_index' = 0
  /\ pos' = 0
  /\ failure_count' = 0
  /\ lastEvent' = "none"
  /\ attempts' = 0
  /\ authCalls' = 0
  /\ lastResp' = NoResponse
  /\ posts' = 0
  /\ sleeps' = 0
  /\ usedSess' = 0
  /\ lastOutcome' = "none"
  /\ written' = <<>>
  /\ loaded' = NotLoaded
  /\ UNCHANGED <<table, fileVars, everVars>>

Crash == pc \in Running /\ StartAgain

Restart == pc \in Ended /\ StartAgain

Next ==
  \/ SignInOk
  \/ SignInFail
  \/ FetchOk
  \/ FetchFail
  \/ LoadCheckpoint
  \/ Submit
  \/ Backoff
  \/ ReSignInOk
  \/ ReSignInFail
  \/ SaveOpen
  \/ SaveWrite
  \/ Crash
  \/ Restart

Spec == Init /\ [][Next]_vars

SpecAnyFile == InitAnyFile /\ [][Next]_vars

SpecLongList == InitLongList /\ [][Next]_vars

\* the steps main() takes by itself: a process that is not killed goes on
RunStep ==
  \/ SignInOk
  \/ SignInFail
  \/ FetchOk
  \/ FetchFail
  \/ LoadCheckpoint
  \/ Submit
  \/ Backoff
  \/ ReSignInOk
  \/ ReSignInFail
  \/ SaveOpen
  \/ SaveWrite

\* the states of Init that count the accepted submits of index 0: no step
\* reads watch, so the runs from the other states of Init differ in
\* watchAccepts only
InitWatchFirst == Init /\ watch = 0

\* every request gets some answer, and the single thread keeps running
FairSpec == InitWatchFirst /\ [][Next]_vars /\ WF_vars(RunStep)

(***************************************************************************)
(* Properties.                                                             *)
(***************************************************************************)
\* the positions of main() inside the processing of one item
ItemPcs == {"submit", "sleep", "resign", "save", "write"}

\* the positions at which no save_checkpoint call is under way
Settled == {"submit", "sleep", "resign", "save", "done"}

\* C1, as the specification states it: after a successful re-sign-in the
\* item is pending again with failure_count = 0 and is submitted again, so
\* the checkpoint does not move past it yet.
C1_RetriesAfterReSignIn ==
  lastEvent = "resign_ok" => pc = "submit" /\ failure_count = 0

\* C1, amended: a successful re-sign-in resets failure_count to 0 and
\* replaces the session, and ends the item: it came after exactly
\* ALPHA_FAIL_ATTEMPT_TOLERANCE + 1 submits, it is the only sign_in call of
\* the item, no further submit of the item follows, the checkpoint is saved
\* next, and once the item is skipped the store holds the next index.
C1_SkipsAfterReSignIn ==
  /\ lastEvent = "resign_ok" =>
       /\ pc \in {"save", "write"}
       /\ failure_count = 0
       /\ sess = authCount
       /\ authCalls = 1
       /\ attempts = ALPHA_FAIL_ATTEMPT_TOLERANCE + 1
  /\ (lastOutcome = "skipped" /\ pc \in Settled) =>
       /\ written # <<>>
       /\ written[Len(written)] = i
       /\ fileExists
       /\ fileContent = Str(i)

\* C1 witness: an item was skipped after a successful re-sign-in and the
\* next item is about to be submitted.
C1_Witness ==
  lastOutcome = "skipped" /\ pc = "submit" /\ attempts = 0 /\ sess > 1

\* C2, as the specification states it: the checkpoint is saved only for an
\* item whose last event is an accepted submit or a failed re-sign-in.
C2_SavedOnlyAcceptedOrAbandoned ==
  pc \in {"save", "write"} => lastEvent \in {"accepted", "resign_fail"}

\* C2, amended: the checkpoint is saved only for an item whose last event is
\* an accepted submit, a failed re-sign-in or a successful re-sign-in, never
\* for one whose last event is a rejected submit; every completed item ended
\* accepted, abandoned or skipped.
C2_SavedOnlyEndedItems ==
  /\ pc \in {"save", "write"} =>
       /\ lastEvent \in {"accepted", "resign_fail", "resign_ok"}
       /\ lastEvent = "accepted" => attempts >= 1 /\ authCalls = 0
       /\ lastEvent \in {"resign_fail", "resign_ok"} => authCalls = 1
  /\ pos > 0 => lastOutcome \in {"accepted", "abandoned", "skipped"}
  /\ pos = 0 => lastOutcome = "none"

\* C2 witness: the checkpoint of an item is being written after its
\* re-sign-in succeeded.
C2_Witness == pc = "write" /\ lastEvent = "resign_ok"

\* C3: sign_in is called for an item only after exactly
\* ALPHA_FAIL_ATTEMPT_TOLERANCE + 1 rejected submits of it, and an item
\* accepted after at most ALPHA_FAIL_ATTEMPT_TOLERANCE rejections has no
\* sign_in call.
C3_EscalationBound ==
  /\ pc = "resign" =>
       /\ attempts = ALPHA_FAIL_ATTEMPT_TOLERANCE + 1
       /\ failure_count = ALPHA_FAIL_ATTEMPT_TOLERANCE + 1
       /\ lastEvent = "rejected"
       /\ authCalls = 0
  /\ authCalls > 0 => attempts = ALPHA_FAIL_ATTEMPT_TOLERANCE + 1
  /\ pc \in {"submit", "sleep"} => authCalls = 0
  /\ lastEvent = "accepted" =>
       /\ authCalls = 0
       /\ failure_count = attempts - 1
       /\ failure_count <= ALPHA_FAIL_ATTEMPT_TOLERANCE

\* C3 witness: the first sign_in call of an item is due, after
\* ALPHA_FAIL_ATTEMPT_TOLERANCE + 1 rejected submits.
C3_Witness ==
  pc = "resign" /\ attempts = ALPHA_FAIL_ATTEMPT_TOLERANCE + 1 /\ pos = 1

\* C4: after a failed re-sign-in the item is abandoned: no submit of it
\* follows, the checkpoint is saved as i + 1, and main() goes on to the
\* next item, or ends normally when there is none.
C4_AbandonAndContinue ==
  /\ [](lastEvent = "resign_fail" => pc \in {"save", "write"})
  /\ [][(lastEvent = "resign_fail" /\ runs' = runs) =>
          \/ /\ pc = "save"
             /\ pc' = "write"
             /\ pos' = pos
             /\ attempts' = attempts
          \/ /\ pc = "write"
             /\ fileExists'
             /\ fileContent' = Str(i + 1)
             /\ IntVal(fileContent') = i + 1
             /\ pos' = pos + 1
             /\ lastOutcome' = "abandoned"
             /\ pc' = (IF pos + 1 < Len(todo) THEN "submit" ELSE "done")
          \/ UNCHANGED vars]_vars

\* C4 witness: the item after an abandoned one has been submitted.
C4_Witness == lastOutcome = "abandoned" /\ attempts > 0

\* C5: over all runs, with the process killed and started again at any
\* point, no index gets an accepted submit more than once (stated for the
\* index watch, which the initial state draws among all indices).
C5_NoDuplicateAccept == watchAccepts <= 1

\* C6: within a run the items are walked in ascending index order, each
\* under its own index; there is one checkpoint write per completed item,
\* the j-th write of the run stores start_index + j, and when an item
\* begins the store holds exactly its index.
C6_OneWritePerItem ==
  /\ Len(written) = pos
  /\ \A j \in 1..Len(written) : written[j] = start_index + j
  /\ pc \in ItemPcs =>
       /\ 0 <= i
       /\ i < Len(alpha_expressions)
       /\ alpha = alpha_expressions[i + 1]
  /\ (pos > 0 /\ pc \in Settled) =>
       /\ fileExists
       /\ fileContent = Str(i)
       /\ IntVal(fileContent) = i

\* C6 witness: the third item of a run is about to get its first submit.
C6_Witness == pos = 2 /\ pc = "submit" /\ attempts = 0

\* C7: over all runs the value the store holds never decreases: a value
\* read from the store is at least every value it held before.
C7_CheckpointNeverDecreases ==
  (fileExists /\ IsIntLiteral(fileContent) /\ observed # <<>>) =>
    IntVal(fileContent) >= observed[1]

\* C7 witness: a run started after a kill has saved a value above the one
\* the store held before.
C7_Witness ==
  /\ runs = 2
  /\ written # <<>>
  /\ observed # <<>>
  /\ fileExists
  /\ IsIntLiteral(fileContent)
  /\ IntVal(fileContent) > observed[1]

\* the texts the checkpoint store may hold by its contract
IsNonNegativeInt(text) == IsIntLiteral(text) /\ IntVal(text) >= 0

\* C8: a run that loaded k walks exactly the items k, k+1, ..., N-1, each
\* under its own index and none below k, and ends having completed
\* N - k items (none when k >= N), for every k load_checkpoint returns.
C8_ResumesAtCheckpoint ==
  /\ pc \in ItemPcs =>
       /\ 0 <= i
       /\ start_index <= i
       /\ i < Len(alpha_expressions)
       /\ alpha = alpha_expressions[i + 1]
  /\ pc = "done" => pos = Max(Len(alpha_expressions) - start_index, 0)

\* the store is read as v: no file reads as 0
ReadsAs(v) ==
  IF fileExists THEN IsIntLiteral(fileContent) /\ IntVal(fileContent) = v
  ELSE v = 0

\* C9: while save_checkpoint(i + 1) is under way the store reads as the
\* previous value i or as the new value i + 1, and once it has returned
\* the store reads as the saved value.
C9_AtomicSave ==
  /\ pc = "write" => ReadsAs(i) \/ ReadsAs(i + 1)
  /\ (pos > 0 /\ pc \in Settled) => ReadsAs(i)

\* C10: load_checkpoint returns 0 without a file and the stored value
\* otherwise, and a stored text that is no non-negative integer ends the
\* run with an error before any submit and any checkpoint write.
C10_LoadRejectsCorrupt ==
  /\ (loaded.state = "absent") => start_index = 0 /\ pc # "raised"
  /\ (loaded.state = "present" /\ IsNonNegativeInt(loaded.text)) =>
       start_index = IntVal(loaded.text) /\ pc # "raised"
  /\ (loaded.state = "present" /\ ~IsNonNegativeInt(loaded.text)) =>
       /\ pc = "raised"
       /\ attempts = 0
       /\ pos = 0
       /\ written = <<>>
       /\ fileContent = loaded.text

\* C11: when the first sign_in or the data-fields request fails, main()
\* returns at once: the run has made no submit, completed no item, written
\* no checkpoint and not read the store; the startup steps leave the store
\* as it is; the only step after the return is a new start; and no item
\* is ever processed without a session.
C11_StartupFailureStops ==
  /\ [](pc = "returned" =>
          /\ attempts = 0
          /\ pos = 0
          /\ written = <<>>
          /\ loaded = NotLoaded
          /\ alpha_expressions = <<>>)
  /\ [](pc \in ItemPcs => sess >= 1)
  /\ [][(pc \in {"signin", "fetch"} /\ runs' = runs) =>
          /\ fileExists' = fileExists
          /\ fileContent' = fileContent
          /\ loaded' = loaded]_vars
  /\ [][pc = "returned" => runs' = runs + 1]_vars

\* C11 witness: main() has returned because the first sign_in failed, with
\* a checkpoint file in place.
C11_Witness == pc = "returned" /\ sess = 0 /\ fileExists

\* C12: a rejected submit or a failed re-sign-in never ends the run, every
\* startup error ends the process with a non-zero status, and a run that
\* exhausted the list ends with status 0.
C12_StartupErrorsExitNonZero ==
  /\ lastEvent \in {"rejected", "resign_fail"} => pc \in Running
  /\ pc \in {"returned", "raised"} => ExitCode # 0
  /\ pc = "done" => ExitCode = 0

\* the positions at which the list has been generated
Generated == {"load", "done"} \cup ItemPcs

\* C13: the generated list is the cross product of the MATRIX field ids F
\* and the groups G, fields outside and groups inside: its length is
\* |F| * |G|, the expression at index j * |G| + k is the template applied
\* to F[j] and G[k] (the first one of field a reads
\* group_rank(a/cap, market)), and no field gives the empty list; every
\* run regenerates this same list from the same table.
C13_CrossProduct ==
  pc \in Generated =>
    LET F == MatrixIds(table)
        G == group
    IN  /\ Len(alpha_expressions) = Len(F) * Len(G)
        /\ \A j \in 0..(Len(F) - 1) : \A k \in 0..(Len(G) - 1) :
             alpha_expressions[j * Len(G) + k + 1]
               = AlphaExpression(F[j + 1], G[k + 1])
        /\ \A j \in 0..(Len(F) - 1) :
             F[j + 1] = "a" =>
               /\ alpha_expressions[j * Len(G) + 1]
                    = "group_rank(a/cap, market)"
               /\ alpha_expressions[j * Len(G) + Len(G)]
                    = "group_rank(a/cap, sector)"
        /\ F = <<>> => alpha_expressions = <<>>

\* C13 witness: a list generated from two fields, b before a, in a run
\* started again.
C13_Witness ==
  /\ pc = "load"
  /\ runs = 2
  /\ Len(alpha_expressions) = 2 * Len(group)
  /\ alpha_expressions[1] = "group_rank(b/cap, market)"
  /\ alpha_expressions[Len(group) + 1] = "group_rank(a/cap, market)"

\* the answers that carry a success status and a Location header
Acknowledged(resp) ==
  resp.error = "none" /\ resp.status \in 200..299 /\ resp.location # ""

\* C14: a submit is accepted exactly when the answer has a success status
\* and a non-empty Location header; a connection error, a timeout, an
\* error status and a missing header are rejections handed back as a value
\* (main() goes on to the wait, never to an uncaught exception); and each
\* process_alpha call sends exactly one request.
C14_SubmitOutcome ==
  /\ lastResp # NoResponse =>
       /\ lastEvent \in {"accepted", "rejected"}
       /\ lastEvent = "accepted" <=> Acknowledged(lastResp)
       /\ lastEvent = "accepted" => pc \in {"save", "write"}
       /\ lastEvent = "rejected" => pc = "sleep"
  /\ pc = "sleep" => lastResp \in Responses /\ ~Acknowledged(lastResp)
  /\ lastEvent = "accepted" => lastResp \in Responses
  /\ posts = attempts

\* C14 witness: a submit answered with a success status but no Location
\* header has been rejected.
C14_Witness ==
  /\ pc = "sleep"
  /\ lastEvent = "rejected"
  /\ lastResp = [error |-> "none", status |-> 201, location |-> ""]

\* C15: there is exactly one wait after every rejected submit, before the
\* next submit of the item and before the sign_in it leads to, and no wait
\* after an accepted submit.
C15_OneWaitPerRejection ==
  /\ pc = "submit" => sleeps = attempts
  /\ pc = "sleep" => lastEvent = "rejected" /\ sleeps = attempts - 1
  /\ pc = "resign" => sleeps = attempts
  /\ lastEvent = "accepted" => sleeps = attempts - 1
  /\ lastEvent \in {"resign_ok", "resign_fail"} => sleeps = attempts

\* C15 witness: the sign_in of an item is due and the wait after its last
\* rejected submit has been made.
C15_Witness ==
  pc = "resign" /\ sleeps = ALPHA_FAIL_ATTEMPT_TOLERANCE + 1

\* C16: failure_count is 0 when an item begins, counts the rejected
\* submits of the current item since then (0 again after a successful
\* re-sign-in), and stays within 0..ALPHA_FAIL_ATTEMPT_TOLERANCE + 1.
C16_FailureCountPerItem ==
  /\ 0 <= failure_count
  /\ failure_count <= ALPHA_FAIL_ATTEMPT_TOLERANCE + 1
  /\ (pc = "submit" /\ attempts = 0) => failure_count = 0
  /\ pc \in {"submit", "resign"} => failure_count = attempts
  /\ pc = "sleep" => failure_count = attempts - 1
  /\ lastEvent = "accepted" => failure_count = attempts - 1
  /\ lastEvent = "resign_fail" => failure_count = attempts
  /\ lastEvent = "resign_ok" => failure_count = 0

\* C16 witness: an item begins with failure_count 0 after an item that was
\* abandoned with the count at its maximum.
C16_Witness ==
  /\ lastOutcome = "abandoned"
  /\ pc = "submit"
  /\ attempts = 0
  /\ failure_count = 0

\* C17: every submit is sent with the session of the latest successful
\* sign_in: a successful re-sign-in replaces the session, a failed one
\* leaves the previous session in place, and no item is processed without
\* a session.
C17_LatestSession ==
  /\ pc \in ItemPcs => sess >= 1 /\ sess = authCount
  /\ lastEvent \in {"accepted", "rejected"} =>
       usedSess >= 1 /\ usedSess = authCount
  /\ lastEvent = "resign_ok" => sess = usedSess + 1
  /\ lastEvent = "resign_fail" => sess = usedSess

\* C17 witness: the item after an abandoned one has been submitted with
\* the session that was in place before the failed re-sign-in.
C17_Witness ==
  /\ lastOutcome = "abandoned"
  /\ lastEvent = "accepted"
  /\ usedSess = sess
  /\ sess >= 1

\* the number of items a run that loaded start_index has to walk
ItemsToWalk == Max(Len(alpha_expressions) - start_index, 0)

\* C18: a run that loaded k < N ends normally with N in the store, however
\* its items ended; a run that loaded k >= N ends normally without any
\* submit and any write, the store as it found it; and once the loop has
\* begun the run has no other ending.
C18_EndsAtListLength ==
  /\ pc = "done" =>
       /\ ExitCode = 0
       /\ start_index < Len(alpha_expressions) =>
            /\ pos = Len(alpha_expressions) - start_index
            /\ written # <<>>
            /\ written[Len(written)] = Len(alpha_expressions)
            /\ fileExists
            /\ fileContent = Str(Len(alpha_expressions))
       /\ start_index >= Len(alpha_expressions) =>
            /\ pos = 0
            /\ attempts = 0
            /\ posts = 0
            /\ written = <<>>
            /\ loaded.state = "absent" => ~fileExists
            /\ loaded.state = "present" =>
                 /\ fileExists
                 /\ fileContent = loaded.text
                 /\ IntVal(fileContent) = start_index
  /\ pc \in {"returned", "raised"} =>
       pos = 0 /\ attempts = 0 /\ written = <<>>

\* C18 witness: a run from index 0 has ended with the list length in the
\* store although its last item was abandoned.
C18_Witness ==
  /\ pc = "done"
  /\ lastOutcome = "abandoned"
  /\ start_index = 0
  /\ Len(alpha_expressions) > 0
  /\ fileContent = Str(Len(alpha_expressions))

\* C19: whatever the service answers, an item gets at most
\* ALPHA_FAIL_ATTEMPT_TOLERANCE + 1 submits and at most one sign_in call,
\* a run walks at most N - k items, so that its submits (at most
\* ALPHA_FAIL_ATTEMPT_TOLERANCE + 1 for each of the pos completed items,
\* plus those of the current one) stay within
\* (N - k) * (ALPHA_FAIL_ATTEMPT_TOLERANCE + 1); and a process that is
\* started comes to an end.
C19_RunTerminates ==
  /\ [](/\ attempts <= ALPHA_FAIL_ATTEMPT_TOLERANCE + 1
        /\ authCalls <= 1
        /\ pos <= ItemsToWalk
        /\ pc \in ItemPcs => pos < ItemsToWalk
        /\ pos * (ALPHA_FAIL_ATTEMPT_TOLERANCE + 1) + attempts
             <= ItemsToWalk * (ALPHA_FAIL_ATTEMPT_TOLERANCE + 1))
  /\ (pc \in Running) ~> (pc \in Ended)

\* C19 witness: the last item of a list is being saved after the largest
\* number of submits and one sign_in.
C19_Witness ==
  /\ pc = "write"
  /\ pos + 1 = ItemsToWalk
  /\ attempts = ALPHA_FAIL_ATTEMPT_TOLERANCE + 1
  /\ authCalls = 1
  /\ lastOutcome = "skipped"

====
